---- MODULE Spec2Model ----
(***************************************************************************)
(* Model of backend/src/services/beamng.py: the BeamNG WebSocket client    *)
(* (BeamNGWebSocketClient) and the session operations of BeamNGService.    *)
(*                                                                         *)
(* Every coroutine is cut at the awaits it suspends at: one action runs    *)
(* from one suspension to the next, which is what the asyncio event loop   *)
(* executes atomically. Two awaits are taken within a step: the first step *)
(* of a created listener task (it runs before the loop polls for I/O       *)
(* again) and websocket.send (it returns once the frame is in the write    *)
(* buffer, or raises ConnectionClosed).                                    *)
(*                                                                         *)
(* The functions that turn damage data into telemetry (beamng.py) and into *)
(* a damage analysis (backend/src/services/damage_report.py) are operators *)
(* over exact decimal numbers: a damage value is an integer number of      *)
(* hundredths, a quotient is kept as numerator and denominator.            *)
(*                                                                         *)
(* The crash-event endpoints of backend/src/api/v1/beamng.py                *)
(* (receive_crash_event, get_latest_crash, clear_crash_history) are        *)
(* actions on the module-level list _crash_events.                         *)
(***************************************************************************)
EXTENDS Integers, Sequences, FiniteSets, TLC

\* ---------------------------------------------------------------- bounds
MaxTasks  == 2    \* concurrent callers (one operation each)
MaxConns  == 1    \* websocket connections ever opened
MaxTime   == 1    \* seconds the clock advances (datetime.now())
MaxComponents == 2  \* components of a raw damage map
MaxZonesHit == 2    \* zones a crash reports an impact for
MaxLinks == 2       \* websocket connections ever opened when connect() is called again
MaxSessions == 2    \* sessions created before the callers stop being replaced
MaxPosts == 3       \* crash events posted to receive_crash_event
MaxEvents == 1      \* frames without a pending id that are recorded in events

\* ------------------------------------------------------------- constants
None == 0         \* Python None for websocket / current_session
NoTime == -1      \* Python None for an Optional[datetime]
MaxCalls == 2     \* send_command calls of one operation (end_session makes two)
Unit == 100             \* 1.0, in hundredths
MeaningfulDamage == 5   \* 0.05: `if normalized_value > 0.05`
AffectedAbove == 10     \* 0.1: `if d > 0.1`
CountDivisor == 20      \* `component_count / 20`
WeightScale == 10       \* the weights below are tenths
WeightAverage == 4      \* `(total_damage / len(components)) * 0.4`
WeightMax == 4          \* `max_damage * 0.4`
WeightCount == 2        \* `(component_count / 20) * 0.2`
ForceWeight == 6        \* `impact_force * 0.6`
DeformationWeight == 4  \* `deformation_amount * 0.4`
MaxDamageLevel == 100   \* `min(100, ...)`
PartsAbove == 20        \* `if damage_level > 20`
Percent == 100          \* `/ avg_weight * 100`, `min(100.0, ...)`
InspectAbove == 20      \* passenger_compartment: `damage_level > 20`
ConcernAbove == 30      \* critical zones: `damage_level > 30`
SuspensionAbove == 40   \* suspension: `damage_level > 40`
EngineAbove == 50       \* engine_bay: `damage_level > 50`
UnsafeAbove == 70       \* `severity_score > 70`
CautionAbove == 40      \* `severity_score > 40`
MinorAbove == 15        \* `severity_score > 15`
SkipBelow == 10         \* `if damage_level < 10`
OverallAbove == 60      \* `if severity_score > 60`
MAX_CRASH_HISTORY == 50 \* api/v1/beamng.py: MAX_CRASH_HISTORY = 50

Tasks == 1 .. MaxTasks
VehicleModels == {"golf"}
Statuses == {"success", "error"}

\* A message id (uuid4, unique per call) is <<task, number of the call>>.
NoId == <<0, 0>>

\* The future of a call before set_result: asyncio.Future()
Pending == [id |-> NoId, status |-> "pending"]

NoSid == [model |-> "", ts |-> NoTime]

VARIABLES
    websocket,         \* self.websocket: None or the connection
    connected,         \* self.connected
    response_futures,  \* self._response_futures: message id -> future
    conns,             \* state of every connection opened so far
    listeners,         \* the _message_listener task created with each connection
    disc,              \* the connection a disconnect() in progress is closing
    wire,              \* messages written to the simulator, in order
    delivered,         \* the message ids of the future.set_result calls, in order
    ignored,           \* keys of the table a frame was skipped for because the future was done
    removed,           \* how often each key was removed from _response_futures
    op, pc, n, sid, out, ret,   \* per task: operation, position, calls made, data, outcome, return value
    sessions,          \* every BeamNGSession object created
    current_session,   \* self.current_session: None or a session object
    now,               \* datetime.now(), in seconds
    telemetry,         \* a get_damage_data response and the BeamNGTelemetry built from it
    crash_data,        \* the crash_data argument of analyze_crash_damage
    analysis_result,   \* the analysis_result dict of analyze_crash_damage
    events,            \* the frames _handle_message took for events, in order
    crash_events,      \* _crash_events of api/v1/beamng.py, newest first
    posted,            \* the events posted to receive_crash_event since the last clear
    response           \* the response of the last request to the crash-event endpoints

clientVars == <<websocket, connected, conns, listeners, disc>>
tableVars  == <<response_futures, delivered, ignored, removed>>
taskVars   == <<op, pc, n, sid, out, ret>>
sessVars   == <<sessions, current_session>>
analysisVars == <<telemetry, crash_data, analysis_result>>
serviceVars == <<clientVars, tableVars, wire, taskVars, sessVars, now>>
apiVars == <<crash_events, posted, response>>
vars == <<serviceVars, analysisVars, events, apiVars>>

\* ------------------------------------------------------------ outcomes
\* What one send_command call gives its caller: a response frame or an exception.
NoFrame == [id |-> NoId, status |-> "none"]
NoOutcome == [kind |-> "none", etype |-> "", msg |-> "", frame |-> NoFrame]
Response(f) == [kind |-> "response", etype |-> "", msg |-> "", frame |-> f]
Raise(etype, msg) == [kind |-> "error", etype |-> etype, msg |-> msg, frame |-> NoFrame]

\* The three raise statements of send_command, and the session guard.
NotConnectedError == Raise("BeamNGConnectionError", "Not connected to BeamNG.drive")
TimedOutError     == Raise("BeamNGConnectionError", "timed out")
SendFailedError   == Raise("BeamNGConnectionError", "failed")
NoSessionError    == Raise("BeamNGConnectionError", "No active session")

\* ------------------------------------------------------------- helpers
MessageId(t) == <<t, n[t]>>

\* self._response_futures[message_id] = future
Put(tab, id) == (id :> Pending) @@ tab.futs

\* self._response_futures.pop(message_id, None): tab is the table with the count of
\* removals per key.
Pop(tab, id) ==
    IF id \in DOMAIN tab.futs
    THEN [futs |-> [k \in DOMAIN tab.futs \ {id} |-> tab.futs[k]],
          removed |-> IF id \in DOMAIN tab.removed
                      THEN [tab.removed EXCEPT ![id] = @ + 1]
                      ELSE (id :> 1) @@ tab.removed]
    ELSE tab

Table == [futs |-> response_futures, removed |-> removed]

\* `if not self.connected or not self.websocket`
NotConnected == ~connected \/ websocket = None

\* The command each operation sends with its k-th call.
CommandOf(o, k) ==
    CASE o = "send_command"             -> "ping"
      [] o = "connect"                  -> "ping"
      [] o = "load_vw_scenario"         -> "load_scenario"
      [] o = "execute_crash_simulation" -> "execute_crash"
      [] o = "end_session"              -> IF k = 1 THEN "stop_telemetry" ELSE "cleanup_scenario"
      [] o = "extract_damage_telemetry" -> IF k = 1 THEN "get_damage_data" ELSE "get_vehicle_state"

\* ------------------------------------------------------------------ Init
\* No telemetry has been asked for and no analysis has been started.
NoTelemetry == [stage |-> "none"]
NoCrashData == [stage |-> "none"]
NoAnalysis == [stage |-> "none"]

\* No request has been made to the crash-event endpoints.
NoResponse == [request |-> "none"]

\* BeamNGWebSocketClient.__init__ and BeamNGService.__init__, and the module state
\* of api/v1/beamng.py (`_crash_events = []`).
InitService ==
    /\ websocket = None
    /\ connected = FALSE
    /\ response_futures = <<>>
    /\ conns = <<>>
    /\ listeners = <<>>
    /\ disc = None
    /\ wire = <<>>
    /\ delivered = <<>>
    /\ ignored = {}
    /\ removed = <<>>
    /\ op = [t \in Tasks |-> "none"]
    /\ pc = [t \in Tasks |-> "idle"]
    /\ n = [t \in Tasks |-> 0]
    /\ sid = [t \in Tasks |-> NoSid]
    /\ out = [t \in Tasks |-> NoOutcome]
    /\ ret = [t \in Tasks |-> "none"]
    /\ sessions = <<>>
    /\ current_session = None
    /\ now = 0
    /\ events = <<>>
    /\ crash_events = <<>>
    /\ posted = <<>>
    /\ response = NoResponse

Init ==
    /\ InitService
    /\ telemetry = NoTelemetry
    /\ crash_data = NoCrashData
    /\ analysis_result = NoAnalysis

\* ------------------------------------------------- connection lifecycle
\* BeamNGWebSocketClient.connect: `await websockets.connect(...)` either returns a
\* connection (websocket set, connected = True, a listener task created, which
\* iterates over self.websocket) or raises (connected = False). Nothing is read or
\* written before the await.
ConnectUpTo(ok, limit) ==
    /\ IF ok
       THEN /\ Len(conns) < limit
            /\ conns' = Append(conns, "open")
            /\ websocket' = Len(conns) + 1
            /\ connected' = TRUE
            /\ listeners' = Append(listeners, [st |-> "running", ws |-> Len(conns) + 1])
       ELSE /\ connected' = FALSE
            /\ UNCHANGED <<websocket, conns, listeners>>
    /\ UNCHANGED <<disc, tableVars, wire, taskVars, sessVars, now, analysisVars, events, apiVars>>

Connect(ok) == ConnectUpTo(ok, MaxConns)

\* The peer ends a connection: a normal close or an abnormal one.
Drop(k, how) ==
    /\ k \in 1 .. Len(conns)
    /\ conns[k] = "open"
    /\ how \in {"peer_closed", "dropped"}
    /\ conns' = [conns EXCEPT ![k] = how]
    /\ UNCHANGED <<websocket, connected, listeners, disc, tableVars, wire, taskVars, sessVars, now, analysisVars, events, apiVars>>

\* BeamNGWebSocketClient.disconnect up to `await self.websocket.close()`.
DisconnectBegin ==
    /\ disc = None
    /\ websocket # None /\ connected
    /\ disc' = websocket
    /\ conns' = [conns EXCEPT ![websocket] = IF @ = "open" THEN "closing" ELSE @]
    /\ UNCHANGED <<websocket, connected, listeners, tableVars, wire, taskVars, sessVars, now, analysisVars, events, apiVars>>

\* disconnect after the close: `self.connected = False`, and it returns.
DisconnectEnd ==
    /\ disc # None
    /\ conns' = [conns EXCEPT ![disc] = IF @ = "closing" THEN "closed" ELSE @]
    /\ connected' = FALSE
    /\ disc' = None
    /\ UNCHANGED <<websocket, listeners, tableVars, wire, taskVars, sessVars, now, analysisVars, events, apiVars>>

\* _message_listener leaves its loop. A normal close ends the iteration silently
\* (connected is not touched); ConnectionClosed or any other exception sets
\* connected = False.
ListenerObserve(k) ==
    /\ k \in 1 .. Len(listeners)
    /\ listeners[k].st = "running"
    /\ LET w == listeners[k].ws IN
       /\ conns[w] \in {"closed", "peer_closed", "dropped"}
       /\ connected' = IF conns[w] = "dropped" THEN FALSE ELSE connected
    /\ listeners' = [listeners EXCEPT ![k].st = "ended"]
    /\ UNCHANGED <<websocket, conns, disc, tableVars, wire, taskVars, sessVars, now, analysisVars, events, apiVars>>

\* ------------------------------------------------------ _handle_message
\* _handle_message without `if not future.done()`: a repeated frame is set again.
HandleMessageNoDoneCheck(f) ==
    IF f.id # NoId /\ f.id \in DOMAIN response_futures
    THEN /\ response_futures' = [response_futures EXCEPT ![f.id] = f]
         /\ delivered' = Append(delivered, f.id)
         /\ UNCHANGED ignored
    ELSE UNCHANGED <<response_futures, delivered, ignored>>

\* _handle_message that gives a response to the oldest waiting call instead of
\* looking up the frame's id.
HandleMessageByArrival(f) ==
    LET waiting == {i \in 1 .. Len(wire) :
                      /\ wire[i].id \in DOMAIN response_futures
                      /\ response_futures[wire[i].id] = Pending}
    IN IF f.id # NoId /\ waiting # {}
       THEN LET first == wire[CHOOSE i \in waiting : \A j \in waiting : i <= j].id IN
            /\ response_futures' = [response_futures EXCEPT ![first] = f]
            /\ delivered' = Append(delivered, first)
            /\ UNCHANGED ignored
       ELSE UNCHANGED <<response_futures, delivered, ignored>>

\* The frame's id is looked up in the table; a future that is done is left alone.
HandleMessage(f) ==
    IF f.id # NoId /\ f.id \in DOMAIN response_futures
    THEN IF response_futures[f.id] = Pending          \* not future.done()
         THEN /\ response_futures' = [response_futures EXCEPT ![f.id] = f]
              /\ delivered' = Append(delivered, f.id)
              /\ UNCHANGED ignored
         ELSE /\ ignored' = ignored \cup {f.id}
              /\ UNCHANGED <<response_futures, delivered>>
    ELSE UNCHANGED <<response_futures, delivered, ignored>>    \* event or notification: logged

\* Ids of the messages written to connection w.
SentOn(w) == {wire[i].id : i \in {j \in 1 .. Len(wire) : wire[j].ws = w}}

\* One turn of the loop of _message_listener: a frame is read and handled. The
\* simulator answers (or repeats an answer to) a message it was sent, or sends a
\* frame without id.
ListenerRead(k, id, status) ==
    /\ k \in 1 .. Len(listeners)
    /\ listeners[k].st = "running"
    /\ LET w == listeners[k].ws IN
       /\ conns[w] \in {"open", "closing"}
       /\ id \in SentOn(w) \cup {NoId}
    /\ status \in Statuses
    /\ HandleMessage([id |-> id, status |-> status])
    /\ UNCHANGED <<clientVars, removed, wire, taskVars, sessVars, now, analysisVars, events, apiVars>>

\* The `type` of a frame the simulator sends on its own.
EventTypes == {"crash", "status"}

\* A turn of the loop of _message_listener with a frame that carries no id of a
\* call: _handle_message finds no future, takes the else branch and logs
\* "Received event: <type>". The frame is recorded in events.
EventArrives(k, type) ==
    /\ Len(events) < MaxEvents
    /\ k \in 1 .. Len(listeners)
    /\ listeners[k].st = "running"
    /\ conns[listeners[k].ws] \in {"open", "closing"}
    /\ type \in EventTypes
    /\ HandleMessage([id |-> NoId, status |-> "success"])
    /\ events' = Append(events, [type |-> type, ws |-> listeners[k].ws])
    /\ UNCHANGED <<clientVars, removed, wire, taskVars, sessVars, now, analysisVars, apiVars>>

\* ---------------------------------------------------- calls of a task
\* What an operation returns when a call of send_command raises: a bare caller
\* sees the exception, the session operations catch it and return False;
\* extract_damage_telemetry raises it again as TelemetryExtractionError.
OnError(o) == IF o \in {"send_command", "extract_damage_telemetry"} THEN "raise" ELSE "False"

\* The operation of task t returns r (or raises) with o the outcome of its last call.
Return(t, o, r, tab) ==
    /\ pc' = [pc EXCEPT ![t] = "done"]
    /\ out' = [out EXCEPT ![t] = o]
    /\ ret' = [ret EXCEPT ![t] = r]
    /\ response_futures' = tab.futs
    /\ removed' = tab.removed
    /\ UNCHANGED <<n, sid, wire>>

\* send_command(command, data) called by operation o of task t, on table tab.
\* Not connected: raises before anything is registered. Otherwise a fresh message id,
\* the future into the table, the message written; a failed write is wrapped into
\* BeamNGConnectionError and `finally` pops the entry. Then the caller waits.
SendCommand(t, o, data, tab) ==
    LET message_id == <<t, n[t] + 1>> IN
    IF NotConnected
    THEN Return(t, NotConnectedError, OnError(o), tab)
    ELSE IF conns[websocket] # "open"
    THEN /\ pc' = [pc EXCEPT ![t] = "done"]
         /\ out' = [out EXCEPT ![t] = SendFailedError]
         /\ ret' = [ret EXCEPT ![t] = OnError(o)]
         /\ n' = [n EXCEPT ![t] = @ + 1]
         /\ sid' = [sid EXCEPT ![t] = data]
         /\ LET after == Pop([tab EXCEPT !.futs = Put(tab, message_id)], message_id) IN
            /\ response_futures' = after.futs
            /\ removed' = after.removed
         /\ UNCHANGED wire
    ELSE /\ n' = [n EXCEPT ![t] = @ + 1]
         /\ sid' = [sid EXCEPT ![t] = data]
         /\ response_futures' = Put(tab, message_id)
         /\ removed' = tab.removed
         /\ wire' = Append(wire, [id |-> message_id, command |-> CommandOf(o, n[t] + 1),
                                  session_id |-> data, ws |-> websocket])
         /\ pc' = [pc EXCEPT ![t] = "waiting"]
         /\ UNCHANGED <<out, ret>>

\* A bare caller of send_command gets the response or the exception.
SendCommandDone(t, o, tab) ==
    /\ Return(t, o, IF o.kind = "response" THEN "response" ELSE "raise", tab)
    /\ UNCHANGED sessVars

\* BeamNGSession(session_id=..., started_at=datetime.now(), status="active")
NewSession(session_id) ==
    [session_id |-> session_id, vehicle_model |-> session_id.model,
     started_at |-> now, ended_at |-> NoTime, status |-> "active",
     crash_detected |-> FALSE, crash_timestamp |-> NoTime, telemetry_count |-> 0]

\* response.get("status") == "success"
Succeeded(o) == o.kind = "response" /\ o.frame.status = "success"

\* load_vw_scenario after `await self.client.send_command("load_scenario", ...)`
LoadDone(t, o, tab) ==
    IF Succeeded(o)
    THEN /\ sessions' = Append(sessions, NewSession(sid[t]))
         /\ current_session' = Len(sessions) + 1
         /\ Return(t, o, "True", tab)
    ELSE /\ Return(t, o, "False", tab)
         /\ UNCHANGED sessVars

\* execute_crash_simulation after `await self.client.send_command("execute_crash", ...)`.
\* self.current_session is read again here: None gives an AttributeError, which
\* `except Exception` turns into return False.
CrashDone(t, o, tab) ==
    IF Succeeded(o) /\ current_session # None
    THEN /\ sessions' = [sessions EXCEPT ![current_session].crash_detected = TRUE,
                                         ![current_session].crash_timestamp = now]
         /\ UNCHANGED current_session
         /\ Return(t, o, "True", tab)
    ELSE /\ Return(t, o, "False", tab)
         /\ UNCHANGED sessVars

\* end_session after one of its two awaits. The responses are not inspected; an
\* exception of either call (or an AttributeError on a current_session that became
\* None meanwhile) is caught and gives return False.
EndDone(t, o, tab) ==
    IF o.kind = "error" \/ current_session = None
    THEN /\ Return(t, o, "False", tab)
         /\ UNCHANGED sessVars
    ELSE IF n[t] = 1
         THEN /\ SendCommand(t, "end_session", sessions[current_session].session_id, tab)
              /\ UNCHANGED sessVars
         ELSE /\ sessions' = [sessions EXCEPT ![current_session].status = "completed",
                                              ![current_session].ended_at = now]
              /\ current_session' = None
              /\ Return(t, o, "True", tab)

\* extract_damage_telemetry after one of its two awaits. A get_damage_data response
\* that is not a success, an exception of either call, or a current_session that
\* became None meanwhile raises TelemetryExtractionError; the status of the
\* get_vehicle_state response is not inspected. Otherwise a BeamNGTelemetry is built
\* from the two responses (ProcessTelemetry below) and returned; the session object
\* is read, never written.
ExtractDone(t, o, tab) ==
    /\ UNCHANGED sessVars
    /\ IF o.kind = "error" \/ current_session = None
       THEN Return(t, o, "raise", tab)
       ELSE IF n[t] = 1
            THEN IF Succeeded(o)
                 THEN SendCommand(t, "extract_damage_telemetry",
                                  sessions[current_session].session_id, tab)
                 ELSE Return(t, o, "raise", tab)
            ELSE Return(t, o, "telemetry", tab)

\* BeamNGService.connect after `await self.client.send_command("ping")`: True for
\* a success response; any other response falls through to `return False`, an
\* exception is caught and gives return False. Nothing else is done in either case.
ConnectDone(t, o, tab) ==
    /\ Return(t, o, IF Succeeded(o) THEN "True" ELSE "False", tab)
    /\ UNCHANGED sessVars

\* What the caller of send_command does with its outcome, up to its next await.
Continue(t, o, tab) ==
    CASE op[t] = "send_command"             -> SendCommandDone(t, o, tab)
      [] op[t] = "load_vw_scenario"         -> LoadDone(t, o, tab)
      [] op[t] = "execute_crash_simulation" -> CrashDone(t, o, tab)
      [] op[t] = "end_session"              -> EndDone(t, o, tab)
      [] op[t] = "extract_damage_telemetry" -> ExtractDone(t, o, tab)
      [] op[t] = "connect"                  -> ConnectDone(t, o, tab)

\* ----------------------------------------------------------- send_command
\* A caller invokes client.send_command directly.
SendCommandCall(t) ==
    /\ pc[t] = "idle"
    /\ op' = [op EXCEPT ![t] = "send_command"]
    /\ SendCommand(t, "send_command", NoSid, Table)
    /\ UNCHANGED <<clientVars, delivered, ignored, sessVars, now, analysisVars, events, apiVars>>

\* A timeout handler that also gives the connection up.
TimeoutDropsConnection(t) ==
    /\ pc[t] = "waiting"
    /\ response_futures[MessageId(t)] = Pending
    /\ Continue(t, TimedOutError, Pop(Table, MessageId(t)))
    /\ ignored' = ignored \ {MessageId(t)}
    /\ connected' = FALSE
    /\ UNCHANGED <<op, websocket, conns, listeners, disc, delivered, now, analysisVars, events, apiVars>>

\* A timer that fires only while the client is connected.
TimeoutIfConnected(t) ==
    /\ connected
    /\ pc[t] = "waiting"
    /\ response_futures[MessageId(t)] = Pending
    /\ Continue(t, TimedOutError, Pop(Table, MessageId(t)))
    /\ ignored' = ignored \ {MessageId(t)}
    /\ UNCHANGED <<op, clientVars, delivered, now, analysisVars, events, apiVars>>

\* asyncio.wait_for expires before the future is done: TimeoutError, wrapped into
\* BeamNGConnectionError; `finally` pops the entry.
Timeout(t) ==
    /\ pc[t] = "waiting"
    /\ response_futures[MessageId(t)] = Pending
    /\ Continue(t, TimedOutError, Pop(Table, MessageId(t)))
    /\ ignored' = ignored \ {MessageId(t)}
    /\ UNCHANGED <<op, clientVars, delivered, now, analysisVars, events, apiVars>>

\* The caller resumes with the result of its future; `finally` pops the entry.
Resume(t) ==
    /\ pc[t] = "waiting"
    /\ response_futures[MessageId(t)] # Pending
    /\ Continue(t, Response(response_futures[MessageId(t)]), Pop(Table, MessageId(t)))
    /\ ignored' = ignored \ {MessageId(t)}
    /\ UNCHANGED <<op, clientVars, delivered, now, analysisVars, events, apiVars>>

\* ------------------------------------------------------ BeamNGService
\* BeamNGService.connect up to the await of its ping: client.connect (as in
\* ConnectUpTo), and if that returned True, send_command("ping") on the connection
\* just opened. If client.connect returned False the service returns False.
ServiceConnectCall(t, ok) ==
    /\ pc[t] = "idle"
    /\ op' = [op EXCEPT ![t] = "connect"]
    /\ IF ok
       THEN LET message_id == <<t, n[t] + 1>> IN
            /\ Len(conns) < MaxConns
            /\ conns' = Append(conns, "open")
            /\ websocket' = Len(conns) + 1
            /\ connected' = TRUE
            /\ listeners' = Append(listeners, [st |-> "running", ws |-> Len(conns) + 1])
            /\ n' = [n EXCEPT ![t] = @ + 1]
            /\ response_futures' = Put(Table, message_id)
            /\ wire' = Append(wire, [id |-> message_id, command |-> CommandOf("connect", 1),
                                     session_id |-> NoSid, ws |-> Len(conns) + 1])
            /\ pc' = [pc EXCEPT ![t] = "waiting"]
            /\ UNCHANGED <<sid, out, ret, removed>>
       ELSE /\ connected' = FALSE
            /\ UNCHANGED <<websocket, conns, listeners>>
            /\ Return(t, NoOutcome, "False", Table)
    /\ UNCHANGED <<disc, delivered, ignored, sessVars, now, analysisVars, events, apiVars>>

\* load_vw_scenario up to its await.
LoadCall(t, model) ==
    /\ pc[t] = "idle"
    /\ model \in VehicleModels
    /\ op' = [op EXCEPT ![t] = "load_vw_scenario"]
    /\ SendCommand(t, "load_vw_scenario", [model |-> model, ts |-> now], Table)
    /\ UNCHANGED <<clientVars, delivered, ignored, sessVars, now, analysisVars, events, apiVars>>

\* execute_crash_simulation up to its await.
CrashCall(t) ==
    /\ pc[t] = "idle"
    /\ op' = [op EXCEPT ![t] = "execute_crash_simulation"]
    /\ IF current_session = None
       THEN Return(t, NoSessionError, "raise", Table)
       ELSE SendCommand(t, "execute_crash_simulation", sessions[current_session].session_id, Table)
    /\ UNCHANGED <<clientVars, delivered, ignored, sessVars, now, analysisVars, events, apiVars>>

\* end_session up to its first await.
EndCall(t) ==
    /\ pc[t] = "idle"
    /\ op' = [op EXCEPT ![t] = "end_session"]
    /\ IF current_session = None
       THEN Return(t, NoOutcome, "True", Table)
       ELSE SendCommand(t, "end_session", sessions[current_session].session_id, Table)
    /\ UNCHANGED <<clientVars, delivered, ignored, sessVars, now, analysisVars, events, apiVars>>

\* extract_damage_telemetry up to its first await.
ExtractCall(t) ==
    /\ pc[t] = "idle"
    /\ op' = [op EXCEPT ![t] = "extract_damage_telemetry"]
    /\ IF current_session = None
       THEN Return(t, NoSessionError, "raise", Table)
       ELSE SendCommand(t, "extract_damage_telemetry", sessions[current_session].session_id, Table)
    /\ UNCHANGED <<clientVars, delivered, ignored, sessVars, now, analysisVars, events, apiVars>>

\* datetime.now() moves on by a second.
Tick ==
    /\ now < MaxTime
    /\ now' = now + 1
    /\ UNCHANGED <<clientVars, tableVars, wire, taskVars, sessVars, analysisVars, events, apiVars>>

\* load_vw_scenario of caller t has returned True and t is replaced by the next
\* caller, who has made no call yet. The messages of the caller that is gone are no
\* longer answered by the simulator and its part of the history is dropped.
NextCaller(t) ==
    /\ pc[t] = "done"
    /\ op[t] = "load_vw_scenario"
    /\ ret[t] = "True"
    /\ Len(sessions) < MaxSessions
    /\ op' = [op EXCEPT ![t] = "none"]
    /\ pc' = [pc EXCEPT ![t] = "idle"]
    /\ n' = [n EXCEPT ![t] = 0]
    /\ sid' = [sid EXCEPT ![t] = NoSid]
    /\ out' = [out EXCEPT ![t] = NoOutcome]
    /\ ret' = [ret EXCEPT ![t] = "none"]
    /\ wire' = SelectSeq(wire, LAMBDA m : m.id[1] # t)
    /\ delivered' = SelectSeq(delivered, LAMBDA id : id[1] # t)
    /\ removed' = [id \in {i \in DOMAIN removed : i[1] # t} |-> removed[id]]
    /\ UNCHANGED <<clientVars, response_futures, ignored, sessVars, now, analysisVars, events, apiVars>>

\* Callers are numbered in the order in which they make their calls.
Started(t) == \A u \in Tasks : u < t => pc[u] # "idle"

\* ------------------------------------------------- telemetry processing
\* A value of the raw damage map: a number (in hundredths) or a nested damage object
\* that holds one.
Num(v) == [kind |-> "num", v |-> v]
Obj(v) == [kind |-> "obj", v |-> v]
Absent == [kind |-> "absent", v |-> 0]

\* The keys a raw damage map of the model may have: two of vw_component_mapping and
\* one that is not in it.
ComponentKeys == <<"bumper_F", "spoiler", "hood">>
Components == {ComponentKeys[i] : i \in 1 .. MaxComponents}
RawNumbers == {-20, 0, 4, 5, 6, 10, 11, 45, 85, 100, 120}
RawValues == {Num(v) : v \in RawNumbers} \cup {Obj(85)}

\* damage_response["data"]["components"]
RawMaps == UNION {[S -> RawValues] : S \in SUBSET Components}

\* vw_component_mapping.get(beamng_component, beamng_component)
VwComponent(k) ==
    CASE k = "bumper_F" -> "front_bumper"
      [] k = "hood"     -> "hood"
      [] k = "door_FL"  -> "left_front_door"
      [] k = "engine"   -> "engine"
      [] OTHER          -> k

\* max(0.0, min(1.0, float(damage_value)))
Clamp(v) == IF v < 0 THEN 0 ELSE IF v > Unit THEN Unit ELSE v

\* _normalize_damage_data: a value that is a number is clamped and kept under the
\* mapped key when it is above 0.05; a value that is no number is skipped.
NormalizeDamageData(components) ==
    LET kept == {k \in DOMAIN components :
                   /\ components[k].kind = "num"
                   /\ Clamp(components[k].v) > MeaningfulDamage}
    IN [c \in {VwComponent(k) : k \in kept} |->
           Clamp(components[CHOOSE k \in kept : VwComponent(k) = c].v)]

\* A raw damage map as the dict it is: its items in insertion order. The keys of
\* the model: one of vw_component_mapping, the canonical name it is mapped to, and
\* a key that is mapped to itself.
ItemKeys == {"bumper_F", "front_bumper", "hood"}
Item(k, v) == [key |-> k, value |-> v]

RECURSIVE NormalizeItems(_, _)
\* _normalize_damage_data after the first i items of raw_damage["components"]:
\* `normalized[vw_component] = normalized_value` replaces an entry that is there.
NormalizeItems(items, i) ==
    IF i = 0 THEN <<>>
    ELSE LET before == NormalizeItems(items, i - 1)
             item == items[i]
         IN IF item.value.kind = "num" /\ Clamp(item.value.v) > MeaningfulDamage
            THEN (VwComponent(item.key) :> Clamp(item.value.v)) @@ before
            ELSE before

\* The raw damage map handed to _normalize_damage_data, and the call.
RawItems(items) == [stage |-> "items", items |-> items]
NormalizeRawItems ==
    /\ telemetry.stage = "items"
    /\ telemetry' = [stage |-> "normalized", items |-> telemetry.items,
                     damage_data |-> NormalizeItems(telemetry.items, Len(telemetry.items))]
    /\ UNCHANGED <<serviceVars, events, apiVars, crash_data, analysis_result>>

RECURSIVE SumOver(_, _)
\* sum(f[k] for k in S)
SumOver(f, S) ==
    IF S = {} THEN 0
    ELSE LET k == CHOOSE x \in S : TRUE IN f[k] + SumOver(f, S \ {k})

\* max(f[k] for k in S), S not empty
MaxOver(f, S) == f[CHOOSE k \in S : \A j \in S : f[j] <= f[k]]

RECURSIVE GCD(_, _)
\* The greatest common divisor of a >= 0 and b > 0.
GCD(a, b) == IF a = 0 THEN b ELSE GCD(b % a, a)

\* A number as a quotient of integers in lowest terms with a positive denominator,
\* and what max(0.0, min(1.0, severity)) makes of it.
Quotient(num, den) ==
    LET g == GCD(IF num < 0 THEN -num ELSE num, den)
    IN [kind |-> "value", num |-> num \div g, den |-> den \div g]
Leq(a, b) == a.num * b.den <= b.num * a.den
Same(a, b) == a.num * b.den = b.num * a.den
Clamp01(q) ==
    IF q.num < 0 THEN Quotient(0, 1) ELSE IF q.num > q.den THEN Quotient(1, 1) ELSE q

\* average * 0.4 + maximum * 0.4 + (count / 20) * 0.2 of the values f (hundredths)
\* at the keys S, count of them counted: one quotient over the common denominator.
Weighted(f, S, count) ==
    LET len == Cardinality(S) IN
    Quotient(WeightAverage * SumOver(f, S) * CountDivisor
               + WeightMax * MaxOver(f, S) * len * CountDivisor
               + WeightCount * count * len * Unit,
             WeightScale * len * CountDivisor * Unit)

\* A severity in which only the components above 0.1 enter the average.
CrashSeverityOfAffected(components) ==
    IF DOMAIN components = {} THEN Quotient(0, 1)
    ELSE IF \E k \in DOMAIN components : components[k].kind # "num"
    THEN [kind |-> "TypeError", num |-> 0, den |-> 1]
    ELSE LET f == [k \in DOMAIN components |-> components[k].v]
             affected == {k \in DOMAIN f : f[k] > AffectedAbove}
         IN IF affected = {} THEN Quotient(0, 1)
            ELSE Clamp01(Weighted(f, affected, Cardinality(affected)))

\* _calculate_crash_severity: 0.0 without components; sum() over a value that is no
\* number raises TypeError; otherwise the weighted sum of the raw values, clamped.
CalculateCrashSeverity(components) ==
    IF DOMAIN components = {} THEN Quotient(0, 1)
    ELSE IF \E k \in DOMAIN components : components[k].kind # "num"
    THEN [kind |-> "TypeError", num |-> 0, den |-> 1]
    ELSE LET f == [k \in DOMAIN components |-> components[k].v]
         IN Clamp01(Weighted(f, DOMAIN f,
                             Cardinality({k \in DOMAIN f : f[k] > AffectedAbove})))

\* A get_damage_data response with the components it reports, not processed yet.
RawTelemetry(components) == [stage |-> "raw", raw_damage_data |-> components]

\* The BeamNGTelemetry extract_damage_telemetry builds from a get_damage_data
\* response: damage_data, raw_damage_data, crash_severity. An exception of
\* _calculate_crash_severity makes the extraction fail. before is the sample that
\* was extracted before this one.
BeamNGTelemetry(components, before) ==
    LET severity == CalculateCrashSeverity(components) IN
    [stage |-> IF severity.kind = "value" THEN "processed" ELSE "failed",
     raw_damage_data |-> components,
     damage_data |-> NormalizeDamageData(components),
     crash_severity |-> severity,
     before |-> before]

NoSample == [raw_damage_data |-> <<>>, crash_severity |-> [kind |-> "none", num |-> 0, den |-> 1]]

\* The telemetry of the first response is built.
ProcessTelemetry ==
    /\ telemetry.stage = "raw"
    /\ telemetry' = BeamNGTelemetry(telemetry.raw_damage_data, NoSample)
    /\ UNCHANGED <<serviceVars, events, apiVars, crash_data, analysis_result>>

\* The next extraction: the response differs from the last one in one component
\* (k has the value v now, or is gone), and its telemetry is built.
NextSample(k, v) ==
    /\ telemetry.stage \in {"processed", "failed"}
    /\ LET last == telemetry.raw_damage_data
           components == IF v = Absent
                         THEN [j \in DOMAIN last \ {k} |-> last[j]]
                         ELSE (k :> v) @@ last
       IN /\ components # last
          /\ telemetry' = BeamNGTelemetry(components,
                              [raw_damage_data |-> last,
                               crash_severity |-> telemetry.crash_severity])
    /\ UNCHANGED <<serviceVars, events, apiVars, crash_data, analysis_result>>

\* ------------------------------------------------------ damage analysis
\* damage_report.py. A damage level is an integer number of tenths: with impact
\* forces and deformation amounts that are whole numbers, 0.6 x force + 0.4 x
\* amount has one decimal, which round(damage_level, 2) keeps.
Zones == <<"front_end", "passenger_compartment", "rear_end", "engine_bay",
           "suspension", "undercarriage">>
ZoneIds == {Zones[i] : i \in 1 .. Len(Zones)}

\* 'name' and 'repair_priority' of the zones _analyze_damage_zones starts from.
ZoneName(z) ==
    CASE z = "front_end"             -> "Front End"
      [] z = "passenger_compartment" -> "Passenger Compartment"
      [] z = "rear_end"              -> "Rear End"
      [] z = "engine_bay"            -> "Engine Bay"
      [] z = "suspension"            -> "Suspension System"
      [] z = "undercarriage"         -> "Undercarriage"

RepairPriority(z) ==
    CASE z = "front_end"             -> "high"
      [] z = "passenger_compartment" -> "critical"
      [] z = "rear_end"              -> "medium"
      [] z = "engine_bay"            -> "critical"
      [] z = "suspension"            -> "high"
      [] z = "undercarriage"         -> "medium"

\* zone_weights, in tenths; a zone that is not in the table weighs 1.0.
ZoneWeight(z) ==
    CASE z = "passenger_compartment" -> 20
      [] z = "engine_bay"            -> 18
      [] z = "front_end"             -> 15
      [] z = "suspension"            -> 14
      [] z = "rear_end"              -> 12
      [] z = "undercarriage"         -> 10
      [] OTHER                       -> 10

\* zone_parts_mapping.get(zone_name, []): part number and threshold
ZoneParts(z) ==
    CASE z = "front_end" ->
           {<<"1J0807221", 15>>, <<"5G0823300", 30>>, <<"5G0809857", 25>>, <<"5G0941006", 35>>}
      [] z = "passenger_compartment" ->
           {<<"5G0831055", 40>>, <<"5G0845011", 20>>, <<"5G0867011", 30>>}
      [] z = "engine_bay" ->
           {<<"1K0199262", 50>>, <<"5G0121251", 35>>, <<"1J0201801", 60>>}
      [] z = "suspension" ->
           {<<"5G0413031", 40>>, <<"5G0601025", 25>>, <<"5G0407151", 45>>}
      [] OTHER -> {}

\* A damage level (tenths) against a threshold of the code (whole numbers).
Above(level, threshold) == level > threshold * WeightScale
AtLeast(level, threshold) == level >= threshold * WeightScale

\* _identify_damaged_parts: the parts whose threshold the level reaches, each with
\* the severity of the level.
IdentifyDamagedParts(z, level) ==
    LET severity == IF AtLeast(level, 80) THEN "total"
                    ELSE IF AtLeast(level, 60) THEN "high"
                    ELSE IF AtLeast(level, 40) THEN "medium"
                    ELSE "low"
    IN {[part_number |-> part[1], severity |-> severity] :
           part \in {q \in ZoneParts(z) : AtLeast(level, q[2])}}

\* part_costs.get(part_number, 250.00), in cents
PartCost(part_number) ==
    CASE part_number = "1J0807221" -> 85000
      [] part_number = "5G0823300" -> 150000
      [] part_number = "5G0809857" -> 120000
      [] part_number = "5G0941006" -> 220000
      [] part_number = "5G0831055" -> 80000
      [] part_number = "1K0199262" -> 32000
      [] part_number = "5G0601025" -> 78000
      [] OTHER                     -> 25000

\* severity_multipliers, in tenths
SeverityMultiplier(severity) ==
    CASE severity = "low"    -> 3
      [] severity = "medium" -> 10
      [] severity = "high"   -> 12
      [] severity = "total"  -> 15

RECURSIVE PartsCost(_)
PartsCost(parts) ==
    IF parts = {} THEN 0
    ELSE LET part == CHOOSE q \in parts : TRUE IN
         (PartCost(part.part_number) * SeverityMultiplier(part.severity)) \div WeightScale
           + PartsCost(parts \ {part})

\* _estimate_zone_repair_cost: parts, plus 60% of them for labor; in cents.
EstimateZoneRepairCost(parts) == PartsCost(parts) + (PartsCost(parts) * 60) \div Percent

\* _assess_zone_damage for forces and amounts that are numbers (no statement of
\* its try block raises for them): what zone.update(zone_damage) leaves in the zone.
AssessZoneDamage(z, impact_data, deformation_data) ==
    LET impact_force == IF z \in DOMAIN impact_data THEN impact_data[z] ELSE 0
        deformation_amount == IF z \in DOMAIN deformation_data THEN deformation_data[z] ELSE 0
        combined == ForceWeight * impact_force + DeformationWeight * deformation_amount
        damage_level == IF combined > MaxDamageLevel * WeightScale
                        THEN MaxDamageLevel * WeightScale ELSE combined
        affected_parts == IF Above(damage_level, PartsAbove)
                          THEN IdentifyDamagedParts(z, damage_level) ELSE {}
    IN [zone |-> z, name |-> ZoneName(z), repair_priority |-> RepairPriority(z),
        damage_level |-> damage_level,
        affected_parts |-> affected_parts,
        repair_cost_estimate |-> EstimateZoneRepairCost(affected_parts),
        impact_force |-> impact_force,
        deformation_amount |-> deformation_amount]

\* _analyze_damage_zones: the six zones, each assessed.
AnalyzeDamageZones(data) ==
    [i \in 1 .. Len(Zones) |-> AssessZoneDamage(Zones[i], data.impact_data, data.deformation)]

RECURSIVE WeightedTotal(_, _)
\* total_score of the first i zones: damage_level * weight, summed
WeightedTotal(damage_zones, i) ==
    IF i = 0 THEN 0
    ELSE damage_zones[i].damage_level * ZoneWeight(damage_zones[i].zone)
           + WeightedTotal(damage_zones, i - 1)

\* sum(zone_weights.values()), in tenths, and len(zone_weights)
WeightSum == LET w == [z \in ZoneIds |-> ZoneWeight(z)] IN SumOver(w, ZoneIds)

\* min(100.0, max(0.0, severity_score))
ClampScore(q) ==
    IF q.num < 0 THEN Quotient(0, 1)
    ELSE IF q.num > Percent * q.den THEN Quotient(Percent, 1) ELSE q

\* _calculate_severity_score: (total_score / zone_count) / avg_weight * 100 with
\* avg_weight = sum(zone_weights.values()) / len(zone_weights), clamped; 0.0 without
\* zones. Levels and weights are tenths.
CalculateSeverityScore(damage_zones) ==
    LET zone_count == Len(damage_zones) IN
    IF zone_count = 0 THEN Quotient(0, 1)
    ELSE ClampScore(Quotient(
            WeightedTotal(damage_zones, zone_count) * Cardinality(ZoneIds) * Percent,
            WeightScale * zone_count * WeightSum))

\* severity_score > threshold
ScoreAbove(score, threshold) == score.num > threshold * score.den

\* Some zone of the list is zone z with a damage level above the threshold.
DamagedAbove(damage_zones, z, threshold) ==
    \E i \in 1 .. Len(damage_zones) :
        damage_zones[i].zone = z /\ Above(damage_zones[i].damage_level, threshold)

\* The overall rating of a severity score.
OverallRating(score) ==
    IF ScoreAbove(score, UnsafeAbove) THEN "unsafe"
    ELSE IF ScoreAbove(score, CautionAbove) THEN "caution"
    ELSE IF ScoreAbove(score, MinorAbove) THEN "minor_concern"
    ELSE "safe"

\* A safety assessment in which only the suspension decides whether the car can
\* be driven.
AssessSafetyBySuspension(damage_zones, severity_score) ==
    [overall_rating |-> OverallRating(severity_score),
     driveable |-> ~ DamagedAbove(damage_zones, "suspension", SuspensionAbove),
     inspection_required |-> DamagedAbove(damage_zones, "passenger_compartment", InspectAbove),
     safety_concerns |-> {},
     immediate_actions |-> {}]

\* _assess_safety_impact
AssessSafetyImpact(damage_zones, severity_score) ==
    LET inspect == DamagedAbove(damage_zones, "passenger_compartment", InspectAbove)
        suspension == DamagedAbove(damage_zones, "suspension", SuspensionAbove)
        engine == DamagedAbove(damage_zones, "engine_bay", EngineAbove)
    IN [overall_rating |-> OverallRating(severity_score),
        driveable |-> ~ suspension /\ ~ engine,
        inspection_required |-> inspect,
        safety_concerns |->
            {damage_zones[i].name :
                i \in {j \in 1 .. Len(damage_zones) :
                         /\ damage_zones[j].zone
                               \in {"passenger_compartment", "engine_bay", "suspension"}
                         /\ Above(damage_zones[j].damage_level, ConcernAbove)}},
        immediate_actions |->
            (IF inspect THEN {"Professional safety inspection required"} ELSE {})
            \cup (IF suspension THEN {"Do not drive - suspension damage"} ELSE {})
            \cup (IF engine THEN {"Engine damage - towing required"} ELSE {})]

\* The sort key of _generate_repair_recommendations: (tier of repair_priority,
\* damage_level).
PriorityTier(priority) ==
    CASE priority = "critical" -> 3
      [] priority = "high"     -> 2
      [] priority = "medium"   -> 1
      [] OTHER                 -> 0

SortKey(zone) == <<PriorityTier(zone.repair_priority), zone.damage_level>>
KeyLess(a, b) == a[1] < b[1] \/ (a[1] = b[1] /\ a[2] < b[2])

\* x put into a list that is sorted descending, behind the elements that are not
\* below it: sorted(..., reverse=True) keeps equal elements in their order.
InsertDescending(x, sorted) ==
    LET below == {i \in 1 .. Len(sorted) : KeyLess(SortKey(sorted[i]), SortKey(x))}
        at == IF below = {} THEN Len(sorted) + 1
              ELSE CHOOSE i \in below : \A j \in below : i <= j
    IN SubSeq(sorted, 1, at - 1) \o <<x>> \o SubSeq(sorted, at, Len(sorted))

\* x put into a list that is sorted ascending.
InsertAscending(x, sorted) ==
    LET above == {i \in 1 .. Len(sorted) : KeyLess(SortKey(x), SortKey(sorted[i]))}
        at == IF above = {} THEN Len(sorted) + 1
              ELSE CHOOSE i \in above : \A j \in above : i <= j
    IN SubSeq(sorted, 1, at - 1) \o <<x>> \o SubSeq(sorted, at, Len(sorted))

RECURSIVE AscendingPrefix(_, _)
\* The first i zones sorted ascending.
AscendingPrefix(damage_zones, i) ==
    IF i = 0 THEN <<>>
    ELSE InsertAscending(damage_zones[i], AscendingPrefix(damage_zones, i - 1))

RECURSIVE SortedPrefix(_, _)
\* sorted(damage_zones[:i], key=..., reverse=True)
SortedPrefix(damage_zones, i) ==
    IF i = 0 THEN <<>>
    ELSE InsertDescending(damage_zones[i], SortedPrefix(damage_zones, i - 1))

\* _estimate_repair_time: int(base_time * multiplier * parts_multiplier) hours, in
\* days of eight hours when above 24.
EstimateRepairTime(zone) ==
    LET base_time == CASE zone.zone = "front_end"             -> 8
                       [] zone.zone = "passenger_compartment" -> 12
                       [] zone.zone = "rear_end"              -> 6
                       [] zone.zone = "engine_bay"            -> 16
                       [] zone.zone = "suspension"            -> 10
                       [] OTHER                               -> 8
        multiplier == IF Above(zone.damage_level, 80) THEN 20
                      ELSE IF Above(zone.damage_level, 50) THEN 15
                      ELSE IF Above(zone.damage_level, 25) THEN 12
                      ELSE 8
        parts_multiplier == 10 + 2 * Cardinality(zone.affected_parts)
        total_hours == (base_time * multiplier * parts_multiplier) \div (WeightScale * WeightScale)
    IN IF total_hours > 24 THEN [n |-> total_hours \div 8, unit |-> "days"]
       ELSE [n |-> total_hours, unit |-> "hours"]

\* The recommendation for the zone at place i of the sorted list.
Recommendation(zone, i) ==
    [priority |-> i,
     zone |-> zone.name,
     urgency |-> IF zone.zone \in {"passenger_compartment", "engine_bay"}
                    /\ Above(zone.damage_level, ConcernAbove)
                 THEN "critical" ELSE zone.repair_priority,
     estimated_time |-> EstimateRepairTime(zone),
     estimated_cost |-> zone.repair_cost_estimate,
     parts_needed |-> {part.part_number : part \in zone.affected_parts},
     details |-> <<IF Above(zone.damage_level, 80) THEN "Complete replacement required"
                   ELSE IF Above(zone.damage_level, 50) THEN "Major repair or replacement"
                   ELSE IF Above(zone.damage_level, 25) THEN "Moderate repair needed"
                   ELSE "Minor repair/refinishing">>
                 \o (IF zone.zone \in {"passenger_compartment", "engine_bay"}
                        /\ Above(zone.damage_level, ConcernAbove)
                     THEN <<"Safety-critical repair">> ELSE <<>>)]

\* The recommendation put in front of the others when the score is above 60.
OverallRecommendation ==
    [priority |-> 0, zone |-> "Overall", urgency |-> "critical",
     estimated_time |-> [n |-> 2, unit |-> "2-4 hours"], estimated_cost |-> 30000,
     parts_needed |-> {}, details |-> <<"Professional inspection required before repairs">>]

RECURSIVE RecommendationsFrom(_, _)
\* The recommendations of the sorted zones from place i on: a zone below 10 is
\* skipped.
RecommendationsFrom(sorted, i) ==
    IF i > Len(sorted) THEN <<>>
    ELSE IF sorted[i].damage_level < SkipBelow * WeightScale
    THEN RecommendationsFrom(sorted, i + 1)
    ELSE <<Recommendation(sorted[i], i)>> \o RecommendationsFrom(sorted, i + 1)

\* _generate_repair_recommendations
GenerateRepairRecommendations(damage_zones, severity_score, safety_assessment) ==
    LET sorted_zones == SortedPrefix(damage_zones, Len(damage_zones))
        recommendations == RecommendationsFrom(sorted_zones, 1)
    IN IF ScoreAbove(severity_score, OverallAbove)
       THEN <<OverallRecommendation>> \o recommendations
       ELSE recommendations

RECURSIVE ZoneCosts(_, _)
\* The repair_cost_estimate of the first i zones, summed.
ZoneCosts(damage_zones, i) ==
    IF i = 0 THEN 0
    ELSE damage_zones[i].repair_cost_estimate + ZoneCosts(damage_zones, i - 1)

\* _calculate_total_repair_estimate: the zones' costs plus 10% of them; in cents.
CalculateTotalRepairEstimate(damage_zones) ==
    LET total_estimate == ZoneCosts(damage_zones, Len(damage_zones))
    IN total_estimate + (total_estimate * 10) \div Percent

\* The crash data of the model: an impact force and a deformation amount for at
\* most MaxZonesHit zones, values outside 0..100 among them; or no dict at all.
Forces == {-10, 0, 30, 45, 100, 120}
Amounts == {0, 50, 150}
HitZones == {hit \in SUBSET ZoneIds : Cardinality(hit) <= MaxZonesHit}
CrashData(impact_data, deformation) ==
    [stage |-> "input", impact_data |-> impact_data, deformation |-> deformation]
NoneCrashData == [stage |-> "None"]

\* analyze_crash_damage: zones, severity score, safety assessment, recommendations
\* and total estimate, each stage applied to the results of the stages before it.
\* crash_data.get on None raises AttributeError, which handle_service_error raises
\* again as ServiceException; for a dict of numbers nothing raises.
AnalyzeCrashDamage ==
    /\ crash_data.stage \in {"input", "None"}
    /\ analysis_result.stage = "none"
    /\ analysis_result' =
          IF crash_data.stage = "None"
          THEN [stage |-> "raised", error |-> "ServiceException"]
          ELSE LET damage_zones == AnalyzeDamageZones(crash_data)
                   severity_score == CalculateSeverityScore(damage_zones)
                   safety_assessment == AssessSafetyImpact(damage_zones, severity_score)
               IN [stage |-> "analyzed", error |-> "none",
                   damage_zones |-> damage_zones,
                   severity_score |-> severity_score,
                   safety_assessment |-> safety_assessment,
                   repair_recommendations |->
                       GenerateRepairRecommendations(damage_zones, severity_score,
                                                     safety_assessment),
                   total_repair_estimate |-> CalculateTotalRepairEstimate(damage_zones)]
    /\ UNCHANGED <<serviceVars, events, apiVars, telemetry, crash_data>>

\* The arguments the stages of the analysis are applied to one by one: the zones
\* of a crash that hit at most MaxZonesHit zones with force = deformation (so the
\* damage level is that number), and a severity score.
Levels == {-6, 9, 10, 20, 25, 40, 45, 50, 55}
Scores == {14, 15, 40, 41, 70, 71}
NoSafety == [overall_rating |-> "none"]
Arguments(damage_zones, severity_score) ==
    [stage |-> "arguments", damage_zones |-> damage_zones, severity_score |-> severity_score,
     safety_assessment |-> NoSafety, repair_recommendations |-> <<>>]

\* severity_score = await self._calculate_severity_score(damage_zones)
CalculateSeverity ==
    /\ analysis_result.stage = "arguments"
    /\ analysis_result' =
          [analysis_result EXCEPT
             !.stage = "scored",
             !.severity_score = CalculateSeverityScore(analysis_result.damage_zones)]
    /\ UNCHANGED <<serviceVars, events, apiVars, telemetry, crash_data>>

\* safety_assessment = await self._assess_safety_impact(damage_zones, severity_score)
AssessSafety ==
    /\ analysis_result.stage \in {"arguments", "scored"}
    /\ analysis_result' =
          [analysis_result EXCEPT
             !.stage = "assessed",
             !.safety_assessment = AssessSafetyImpact(analysis_result.damage_zones,
                                                      analysis_result.severity_score)]
    /\ UNCHANGED <<serviceVars, events, apiVars, telemetry, crash_data>>

\* repair_recommendations = await self._generate_repair_recommendations(...)
GenerateRecommendations ==
    /\ analysis_result.stage = "assessed"
    /\ analysis_result' =
          [analysis_result EXCEPT
             !.stage = "recommended",
             !.repair_recommendations =
                 GenerateRepairRecommendations(analysis_result.damage_zones,
                                               analysis_result.severity_score,
                                               analysis_result.safety_assessment)]
    /\ UNCHANGED <<serviceVars, events, apiVars, telemetry, crash_data>>

\* ------------------------------------------- crash events (api/v1/beamng.py)
\* The fields of LuaModDamageData (schemas/beamng.py), and the attributes of
\* event.damage that receive_crash_event reads to build crash_data, in order.
LuaModDamageData ==
    {"total_damage", "previous_damage", "damage_delta", "damaged_parts_count",
     "total_parts_count", "parts"}
DamageAttributesRead ==
    <<"total_damage", "previous_damage", "damage_delta", "part_damage", "damage_by_zone",
      "broken_parts", "broken_parts_count">>

\* total_damage of LuaModDamageData: ge=0, le=1, in hundredths.
TotalDamages == {0, 19, 20, 40, 70, 100}

\* The schema-valid events of the model: event_type and damage.total_damage, every
\* other field at its default.
CrashEvents == [event_type : {"crash_detected"}, total_damage : TotalDamages]

\* `if total_damage >= 0.7: ... elif >= 0.4: ... elif >= 0.2: ... else`
DamageSeverity(total_damage) ==
    IF total_damage >= 70 THEN "severe"
    ELSE IF total_damage >= 40 THEN "moderate"
    ELSE IF total_damage >= 20 THEN "minor"
    ELSE "minimal"

\* _crash_events[:MAX_CRASH_HISTORY]
Truncate(history) ==
    IF Len(history) > MAX_CRASH_HISTORY THEN SubSeq(history, 1, MAX_CRASH_HISTORY) ELSE history

\* receive_crash_event: the crash id is fresh (time and uuid4), crash_data is built
\* attribute by attribute from the event, inserted at the head of _crash_events and
\* the list truncated. An attribute the model class of event.damage does not have
\* raises AttributeError while crash_data is built; `except Exception` answers 500
\* and _crash_events is as before.
ReceiveCrashEvent(event) ==
    /\ Len(posted) < MaxPosts
    /\ event \in CrashEvents
    /\ posted' = <<[event |-> event, cleared |-> FALSE]>> \o posted
    /\ LET crash_id == Len(posted) + 1
           missing == {i \in DOMAIN DamageAttributesRead :
                         DamageAttributesRead[i] \notin LuaModDamageData}
       IN IF missing = {}
          THEN /\ crash_events' =
                     Truncate(<<[crash_id |-> crash_id, event |-> event]>> \o crash_events)
               /\ response' = [request |-> "receive_crash_event", status |-> 200,
                               crash_id |-> crash_id,
                               severity |-> DamageSeverity(event.total_damage)]
          ELSE /\ UNCHANGED crash_events
               /\ response' = [request |-> "receive_crash_event", status |-> 500,
                               crash_id |-> None, severity |-> "none"]
    /\ UNCHANGED <<serviceVars, analysisVars, events>>

\* get_latest_crash: has_crash False on an empty history, else the head of the list.
GetLatestCrash ==
    /\ response' = IF crash_events = <<>>
                   THEN [request |-> "get_latest_crash", status |-> 200,
                         has_crash |-> FALSE, crash_id |-> None]
                   ELSE [request |-> "get_latest_crash", status |-> 200,
                         has_crash |-> TRUE, crash_id |-> crash_events[1].crash_id]
    /\ UNCHANGED <<serviceVars, analysisVars, events, crash_events, posted>>

\* clear_crash_history: `_crash_events = []`
ClearCrashHistory ==
    /\ crash_events' = <<>>
    /\ posted' = [i \in DOMAIN posted |-> [posted[i] EXCEPT !.cleared = TRUE]]
    /\ response' = [request |-> "clear_crash_history", status |-> 200,
                    count |-> Len(crash_events)]
    /\ UNCHANGED <<serviceVars, analysisVars, events>>

\* ------------------------------------------------------- specifications
ConnectOrFail == \E ok \in BOOLEAN : Connect(ok)
PeerDrops == \E k \in 1 .. MaxConns, how \in {"peer_closed", "dropped"} : Drop(k, how)
ListenerEnds == \E k \in 1 .. MaxConns : ListenerObserve(k)
FrameArrives ==
    \E k \in 1 .. MaxConns, t \in Tasks, c \in 0 .. MaxCalls, st \in Statuses :
        ListenerRead(k, IF c = 0 THEN NoId ELSE <<t, c>>, st)
TimerFires == \E t \in Tasks : Timeout(t)
CallerResumes == \E t \in Tasks : Resume(t)
BareCall == \E t \in Tasks : Started(t) /\ SendCommandCall(t)
LoadCalled == \E t \in Tasks, m \in VehicleModels : Started(t) /\ LoadCall(t, m)
CrashCalled == \E t \in Tasks : Started(t) /\ CrashCall(t)
EndCalled == \E t \in Tasks : Started(t) /\ EndCall(t)
ExtractCalled == \E t \in Tasks : Started(t) /\ ExtractCall(t)

ClientNext ==
    \/ ConnectOrFail
    \/ PeerDrops
    \/ DisconnectBegin
    \/ DisconnectEnd
    \/ ListenerEnds
    \/ FrameArrives
    \/ TimerFires
    \/ CallerResumes

\* The client with bare callers of send_command.
Next ==
    \/ ClientNext
    \/ BareCall

Spec == Init /\ [][Next]_vars

\* The client under the scheduling of asyncio.wait_for(future, timeout): a caller
\* that waits is resumed once its future is done, and its timer fires if the future
\* stays pending. Nothing is assumed of the simulator or the connection.
SpecLive ==
    /\ Spec
    /\ \A t \in Tasks : WF_vars(Timeout(t)) /\ WF_vars(Resume(t))

\* The client when connect() is called whatever the state of the client: nothing
\* in connect looks at self.websocket or self.connected before it opens a connection.
ConnectAgain == \E ok \in BOOLEAN : ConnectUpTo(ok, MaxLinks)
LinkDrops == \E k \in 1 .. MaxLinks, how \in {"peer_closed", "dropped"} : Drop(k, how)
LinkListenerEnds == \E k \in 1 .. MaxLinks : ListenerObserve(k)
LinkFrameArrives ==
    \E k \in 1 .. MaxLinks, t \in Tasks, c \in 0 .. MaxCalls, st \in Statuses :
        ListenerRead(k, IF c = 0 THEN NoId ELSE <<t, c>>, st)

ReconnectNext ==
    \/ ConnectAgain
    \/ LinkDrops
    \/ DisconnectBegin
    \/ DisconnectEnd
    \/ LinkListenerEnds
    \/ LinkFrameArrives
    \/ TimerFires
    \/ CallerResumes
    \/ BareCall

SpecReconnect == Init /\ [][ReconnectNext]_vars

\* The service's connect with its health check, on top of the client.
ServiceConnects == \E t \in Tasks, ok \in BOOLEAN : Started(t) /\ ServiceConnectCall(t, ok)

ServiceConnectNext ==
    \/ ClientNext
    \/ ServiceConnects

SpecServiceConnect == Init /\ [][ServiceConnectNext]_vars

\* The service: session operations on top of the client.
SessionNext ==
    \/ ClientNext
    \/ LoadCalled
    \/ CrashCalled
    \/ EndCalled
    \/ Tick

SpecSession == Init /\ [][SessionNext]_vars

\* The service with callers that come one after another.
CallerLeaves == \E t \in Tasks : NextCaller(t)

CallersNext ==
    \/ SessionNext
    \/ CallerLeaves

SpecCallers == Init /\ [][CallersNext]_vars

\* The service while the simulator also sends frames of its own.
EventRead == \E k \in 1 .. MaxConns, type \in EventTypes : EventArrives(k, type)

EventsNext ==
    \/ SessionNext
    \/ EventRead

SpecEvents == Init /\ [][EventsNext]_vars

\* The service with the extraction of telemetry from a loaded scenario.
TelemetryNext ==
    \/ ClientNext
    \/ LoadCalled
    \/ ExtractCalled
    \/ EndCalled
    \/ Tick

SpecTelemetry == Init /\ [][TelemetryNext]_vars

\* The processing of damage data, for every raw damage map of the model.
InitDamage ==
    /\ InitService
    /\ telemetry \in {RawTelemetry(c) : c \in RawMaps}
    /\ crash_data = NoCrashData
    /\ analysis_result = NoAnalysis

SampleChanges == \E k \in Components, v \in RawValues \cup {Absent} : NextSample(k, v)

DamageNext ==
    \/ ProcessTelemetry
    \/ SampleChanges

SpecDamage == InitDamage /\ [][DamageNext]_vars

\* _normalize_damage_data, for every raw damage map of the model as an ordered dict
\* of at most MaxComponents items with different keys.
InitNormalize ==
    /\ InitService
    /\ crash_data = NoCrashData
    /\ analysis_result = NoAnalysis
    /\ \E len \in 0 .. MaxComponents :
          \E keys \in [1 .. len -> ItemKeys], values \in [1 .. len -> RawValues] :
              /\ \A i, j \in 1 .. len : keys[i] = keys[j] => i = j
              /\ telemetry = RawItems([i \in 1 .. len |-> Item(keys[i], values[i])])

NormalizeNext == NormalizeRawItems

SpecNormalize == InitNormalize /\ [][NormalizeNext]_vars

\* analyze_crash_damage, for every crash data of the model.
InitPipeline ==
    /\ InitService
    /\ telemetry = NoTelemetry
    /\ analysis_result = NoAnalysis
    /\ \/ crash_data = NoneCrashData
       \/ \E hit \in HitZones :
             \E f \in [hit -> Forces], a \in [hit -> Amounts] : crash_data = CrashData(f, a)

PipelineNext == AnalyzeCrashDamage

SpecPipeline == InitPipeline /\ [][PipelineNext]_vars

\* The stages of the analysis after the zones, for every zone list and severity
\* score of the model.
InitAnalyzer ==
    /\ InitService
    /\ telemetry = NoTelemetry
    /\ crash_data = NoCrashData
    /\ \E hit \in HitZones :
          \E f \in [hit -> Levels], score \in Scores :
              analysis_result = Arguments(AnalyzeDamageZones(CrashData(f, f)), Quotient(score, 1))

AnalyzerNext ==
    \/ CalculateSeverity
    \/ AssessSafety
    \/ GenerateRecommendations

SpecAnalyzer == InitAnalyzer /\ [][AnalyzerNext]_vars

\* The crash-event endpoints.
EventPosted == \E event \in CrashEvents : ReceiveCrashEvent(event)

CrashEventsNext ==
    \/ EventPosted
    \/ GetLatestCrash
    \/ ClearCrashHistory

SpecCrashEvents == Init /\ [][CrashEventsNext]_vars

\* ================================================================ claims
\* Every message id generated so far, and the task that made the call.
Ids == {<<t, k>> : t \in Tasks, k \in 1 .. MaxCalls}
Issued == {id \in Ids : id[2] <= n[id[1]]}
Current(id) == id[2] = n[id[1]]

\* How often a future was given a result.
Deliveries(id) == Cardinality({i \in 1 .. Len(delivered) : delivered[i] = id})

\* The connection a message was written to (None: it was never written).
ConnOf(id) ==
    IF \E i \in 1 .. Len(wire) : wire[i].id = id
    THEN wire[CHOOSE i \in 1 .. Len(wire) : wire[i].id = id].ws
    ELSE None

\* A call that is waiting for a response that has not come.
Outstanding(t) == pc[t] = "waiting" /\ response_futures[MessageId(t)] = Pending

\* ---- C1
\* C1: under every interleaving of send_command calls, frames (repeated ones too)
\* and timer expiries, a call has one outcome - none while it waits, a response or
\* an error once it has returned -, its entry is in the table while it waits and
\* has been removed exactly once after it returned, and no future is given a
\* result twice: a returned response was delivered once, an error never.
C1_ExactlyOnce ==
    /\ \A id \in Issued :
          LET t == id[1] IN
          IF Current(id) /\ pc[t] = "waiting"
          THEN /\ id \in DOMAIN response_futures
               /\ id \notin DOMAIN removed
               /\ Deliveries(id) = IF response_futures[id] = Pending THEN 0 ELSE 1
          ELSE /\ id \notin DOMAIN response_futures
               /\ id \in DOMAIN removed /\ removed[id] = 1
               /\ Current(id) =>
                    /\ pc[t] = "done"
                    /\ out[t].kind \in {"response", "error"}
                    /\ Deliveries(id) = IF out[t].kind = "response" THEN 1 ELSE 0
    /\ \A t \in Tasks :
          op[t] = "send_command" =>
             /\ pc[t] = "waiting" => out[t] = NoOutcome
             /\ pc[t] = "done" => out[t].kind \in {"response", "error"}
    /\ DOMAIN response_futures \subseteq Issued
    /\ DOMAIN removed \subseteq Issued
    /\ \A i \in 1 .. Len(delivered) : delivered[i] \in Issued

\* One caller holds its response while a repeated frame for it was skipped, and
\* the other caller has timed out and its entry is gone.
C1_Witness ==
    \E a, b \in Tasks :
        /\ a # b
        /\ pc[a] = "waiting" /\ response_futures[MessageId(a)] # Pending
        /\ MessageId(a) \in ignored
        /\ pc[b] = "done" /\ out[b] = TimedOutError
        /\ removed[MessageId(b)] = 1

\* ---- C2
\* C2: the response a caller gets is the frame that carries the id of its own
\* message, in whatever order the responses arrive; so is every result set in the
\* table.
C2_OwnResult ==
    /\ \A t \in Tasks :
          pc[t] = "done" /\ out[t].kind = "response" => out[t].frame.id = MessageId(t)
    /\ \A id \in DOMAIN response_futures :
          response_futures[id] # Pending => response_futures[id].id = id

\* A was sent before B, B's response was delivered before A's, and both callers
\* have returned with the frame of their own id.
C2_Witness ==
    \E a, b \in Tasks :
        /\ a # b
        /\ Len(wire) = 2 /\ wire[1].id = <<a, 1>> /\ wire[2].id = <<b, 1>>
        /\ delivered = << <<b, 1>>, <<a, 1>> >>
        /\ pc[a] = "done" /\ out[a].kind = "response" /\ out[a].frame.id = <<a, 1>>
        /\ pc[b] = "done" /\ out[b].kind = "response" /\ out[b].frame.id = <<b, 1>>

\* ---- C3
\* C3: once disconnect() has returned (the connection it closed is "closed"), no
\* command written to that connection is still waiting for its response.
C3_DisconnectFailsPending ==
    \A t \in Tasks :
        Outstanding(t) => ConnOf(MessageId(t)) = None \/ conns[ConnOf(MessageId(t))] # "closed"

\* ---- C4
\* C4: once the receive loop of a connection has seen it drop, no command written
\* to that connection is still waiting for its response.
C4_DropFailsInFlight ==
    \A t \in Tasks :
        Outstanding(t) =>
            ~ \E k \in 1 .. Len(listeners) :
                /\ listeners[k].ws = ConnOf(MessageId(t))
                /\ listeners[k].st = "ended"
                /\ conns[listeners[k].ws] \in {"dropped", "peer_closed"}

\* ---- C5
\* C5: a step in which a call times out changes nothing but that call: the
\* connection and connected stay as they are, every other entry of the table and
\* every other caller is untouched, and only its own entry is removed; and a caller
\* whose response is in its future returns that response.
TimeoutStep(t) == pc[t] = "waiting" /\ pc'[t] = "done" /\ out'[t] = TimedOutError

C5_TimeoutIsLocal ==
    [][ /\ \A t \in Tasks :
             TimeoutStep(t) =>
                /\ connected' = connected
                /\ websocket' = websocket
                /\ conns' = conns
                /\ DOMAIN response_futures' = DOMAIN response_futures \ {MessageId(t)}
                /\ \A id \in DOMAIN response_futures' : response_futures'[id] = response_futures[id]
                /\ DOMAIN removed' = DOMAIN removed \cup {MessageId(t)}
                /\ \A id \in DOMAIN removed : removed'[id] = removed[id]
                /\ \A u \in Tasks \ {t} : pc'[u] = pc[u] /\ out'[u] = out[u]
        /\ \A u \in Tasks :
             (pc[u] = "waiting" /\ pc'[u] = "done" /\ response_futures[MessageId(u)] # Pending)
                => out'[u] = Response(response_futures[MessageId(u)])
      ]_vars

\* Caller a has timed out while caller b, sent before it, is still in the table
\* with its response, on a connection that is open and connected.
C5_Witness ==
    \E a, b \in Tasks :
        /\ a # b
        /\ Len(wire) = 2 /\ wire[1].id = <<b, 1>> /\ wire[2].id = <<a, 1>>
        /\ pc[a] = "done" /\ out[a] = TimedOutError
        /\ pc[b] = "waiting" /\ response_futures[<<b, 1>>].id = <<b, 1>>
        /\ connected /\ conns[websocket] = "open"

\* ---- C6
\* C6: the error of a call that timed out has another type than the error of a
\* call that was refused or failed because the connection is not there.
C6_TimeoutTypeDiffers ==
    \A t, u \in Tasks :
        /\ out[t].kind = "error" /\ out[t].msg = "timed out"
        /\ out[u].kind = "error" /\ out[u].msg \in {"Not connected to BeamNG.drive", "failed"}
        => out[t].etype # out[u].etype

\* ---- C7
\* C7: after execute_crash_simulation returned True, the session it was called for
\* is marked crash_detected with a crash_timestamp and has left the state active
\* (crashed, or completed after it).
C7_CrashSetsCrashed ==
    \A t \in Tasks :
        op[t] = "execute_crash_simulation" /\ pc[t] = "done" /\ ret[t] = "True" =>
            \E i \in 1 .. Len(sessions) :
                /\ sessions[i].session_id = sid[t]
                /\ sessions[i].crash_detected
                /\ sessions[i].crash_timestamp # NoTime
                /\ sessions[i].status \in {"crashed", "completed"}

\* ---- C8
\* C8: an end_session whose commands were answered or timed out (none failed on
\* the connection) has, when it returns, issued stop_telemetry and then
\* cleanup_scenario, and the session is completed with ended_at set.
C8_EndSessionCompletes ==
    \A t \in Tasks :
        (/\ op[t] = "end_session" /\ pc[t] = "done" /\ n[t] >= 1
         /\ out[t].kind = "response" \/ out[t] = TimedOutError) =>
            /\ \E i, j \in 1 .. Len(wire) :
                  /\ i < j
                  /\ wire[i].id = <<t, 1>> /\ wire[i].command = "stop_telemetry"
                  /\ wire[j].id = <<t, 2>> /\ wire[j].command = "cleanup_scenario"
            /\ \E i \in 1 .. Len(sessions) :
                  /\ sessions[i].session_id = sid[t]
                  /\ sessions[i].status = "completed"
                  /\ sessions[i].ended_at # NoTime

\* ---- C9
\* C9: the step in which the receive loop sees the connection drop while a
\* session is current leaves that session in state error.
C9_ConnectionLossSetsError ==
    [][ (/\ current_session # None
         /\ \E k \in 1 .. Len(listeners) :
               /\ listeners[k].st = "running" /\ listeners'[k].st = "ended"
               /\ conns[listeners[k].ws] = "dropped")
        => sessions'[current_session].status = "error" ]_vars

\* ---- C10
\* C10: at most one session that was created has not been ended (completed or
\* error).
C10_AtMostOneLiveSession ==
    Cardinality({i \in 1 .. Len(sessions) : sessions[i].status \notin {"completed", "error"}}) <= 1

\* ---- C11
\* C11: a session is created with telemetry_count 0, the step in which
\* extract_damage_telemetry returns a telemetry sample adds one to the count of the
\* current session, and no step lowers the count of a session.
C11_TelemetryCounted ==
    [][ /\ Len(sessions') > Len(sessions) => sessions'[Len(sessions')].telemetry_count = 0
        /\ \A i \in 1 .. Len(sessions) :
              sessions'[i].telemetry_count >= sessions[i].telemetry_count
        /\ \A t \in Tasks :
              (/\ op[t] = "extract_damage_telemetry"
               /\ pc[t] = "waiting" /\ pc'[t] = "done" /\ ret'[t] = "telemetry")
              => /\ current_session # None
                 /\ sessions'[current_session].telemetry_count
                       = sessions[current_session].telemetry_count + 1
      ]_vars

\* The sample that has been built (or has failed to build) from a raw damage map.
Sampled == telemetry.stage \in {"processed", "failed"}

\* The damage a raw value stands for: the number, or the number in the nested object.
DamageOf(value) == Clamp(value.v)

\* ---- C12
\* C12: every raw component whose clamped value is at least 0.05 - a number or a
\* nested damage object - is in the canonical map with its clamped value, under
\* the id of the lookup table or under its own key; a component below 0.05 is
\* not in it, and nothing else is.
C12_NoDamagedComponentDropped ==
    Sampled =>
        LET raw == telemetry.raw_damage_data
            canonical == telemetry.damage_data
        IN /\ \A k \in DOMAIN raw :
                 IF DamageOf(raw[k]) >= MeaningfulDamage
                 THEN /\ VwComponent(k) \in DOMAIN canonical
                      /\ canonical[VwComponent(k)] = DamageOf(raw[k])
                 ELSE VwComponent(k) \notin DOMAIN canonical
           /\ DOMAIN canonical \subseteq {VwComponent(k) : k \in DOMAIN raw}

\* ---- C13
\* 0.4 x average(N) + 0.4 x max(N) + 0.2 x min(1, |N| / 20) over the values N of a
\* canonical map; 0.0 for an empty one.
SeverityOfCanonical(canonical) ==
    IF DOMAIN canonical = {} THEN Quotient(0, 1)
    ELSE LET size == Cardinality(DOMAIN canonical) IN
         Weighted(canonical, DOMAIN canonical,
                  IF size > CountDivisor THEN CountDivisor ELSE size)

\* The normalized values of a raw damage map: clamped to [0,1], those below 0.05
\* removed.
NormalizedValues(raw) ==
    [k \in {j \in DOMAIN raw : DamageOf(raw[j]) >= MeaningfulDamage} |-> DamageOf(raw[k])]

\* C13: for every raw damage map a telemetry sample is returned whose
\* crash_severity is that formula applied to the normalized values of the same
\* raw map, and lies in [0,1].
C13_SeverityOfNormalized ==
    Sampled =>
        /\ telemetry.crash_severity.kind = "value"
        /\ Same(telemetry.crash_severity,
                SeverityOfCanonical(NormalizedValues(telemetry.raw_damage_data)))
        /\ 0 <= telemetry.crash_severity.num
        /\ telemetry.crash_severity.num <= telemetry.crash_severity.den

\* ---- C14
\* The sample before this one had the same components, and none has a lower raw
\* value now.
RaisedOnly ==
    /\ telemetry.stage = "processed"
    /\ telemetry.before.crash_severity.kind = "value"
    /\ DOMAIN telemetry.before.raw_damage_data = DOMAIN telemetry.raw_damage_data
    /\ DOMAIN telemetry.raw_damage_data # {}
    /\ \A k \in DOMAIN telemetry.raw_damage_data :
          telemetry.before.raw_damage_data[k].v <= telemetry.raw_damage_data[k].v

\* C14: when one component's raw value is raised and the others are as they were,
\* the crash severity of the new sample is not below that of the sample before.
C14_SeverityMonotonic ==
    RaisedOnly => Leq(telemetry.before.crash_severity, telemetry.crash_severity)

\* One of two components was raised from 0.10 to 0.11 - it is counted as affected
\* now - and the severity is higher than before, and below 1.
C14_Witness ==
    /\ RaisedOnly
    /\ Cardinality(DOMAIN telemetry.raw_damage_data) = 2
    /\ \E k \in DOMAIN telemetry.raw_damage_data :
          /\ telemetry.before.raw_damage_data[k] = Num(10)
          /\ telemetry.raw_damage_data[k] = Num(11)
    /\ ~ Leq(telemetry.crash_severity, telemetry.before.crash_severity)
    /\ telemetry.crash_severity.num < telemetry.crash_severity.den

\* ---- C15
\* clamp(x, 0, 100)
ClampInput(x) == IF x < 0 THEN 0 ELSE IF x > 100 THEN 100 ELSE x

\* C15: the damage level of every zone of an analysis is 0.6 x clamp(force, 0, 100)
\* + 0.4 x clamp(deformation, 0, 100) of the zone's inputs (in tenths: 6 x, 4 x),
\* and lies in [0,100].
C15_ZoneDamageClamped ==
    analysis_result.stage = "analyzed" =>
        \A i \in 1 .. Len(analysis_result.damage_zones) :
            LET zone == analysis_result.damage_zones[i] IN
            /\ zone.damage_level = 6 * ClampInput(zone.impact_force)
                                     + 4 * ClampInput(zone.deformation_amount)
            /\ 0 <= zone.damage_level
            /\ zone.damage_level <= 100 * 10

\* ---- C16
\* The weighted average of the zone damage levels (sum of level x weight over the
\* zones, divided by their number) divided by the average zone weight, clamped to
\* [0,100]. Levels and weights are tenths.
AverageOverWeight(damage_zones) ==
    ClampScore(Quotient(WeightedTotal(damage_zones, Len(damage_zones)) * Cardinality(ZoneIds),
                        10 * Len(damage_zones) * WeightSum))

\* C16: the severity score computed for a list of zones is that quotient.
C16_ScoreIsWeightedAverage ==
    analysis_result.stage = "scored" =>
        Same(analysis_result.severity_score, AverageOverWeight(analysis_result.damage_zones))

\* ---- C17
\* The damage level of a zone of the analysed list (tenths).
DamageIn(z) ==
    LET zones == analysis_result.damage_zones
    IN zones[CHOOSE i \in 1 .. Len(zones) : zones[i].zone = z].damage_level

Assessed == analysis_result.stage \in {"assessed", "recommended"}

\* C17: driveable is false exactly when the suspension is damaged above 40 or the
\* engine bay above 50; inspection_required is true when the passenger
\* compartment is damaged above 20; the rating is caution or unsafe when the
\* severity score is above 40.
C17_SafetyAssessment ==
    Assessed =>
        LET safety == analysis_result.safety_assessment IN
        /\ safety.driveable
              <=> ~ (DamageIn("suspension") > 40 * 10 \/ DamageIn("engine_bay") > 50 * 10)
        /\ DamageIn("passenger_compartment") > 20 * 10 => safety.inspection_required
        /\ analysis_result.severity_score.num > 40 * analysis_result.severity_score.den
              => safety.overall_rating \in {"caution", "unsafe"}

\* Suspension at 45 and passenger compartment at 25 with a score of 41: not
\* driveable, inspection required, rated caution.
C17_Witness ==
    /\ Assessed
    /\ DamageIn("suspension") = 45 * 10
    /\ DamageIn("passenger_compartment") = 25 * 10
    /\ analysis_result.severity_score = Quotient(41, 1)
    /\ ~ analysis_result.safety_assessment.driveable
    /\ analysis_result.safety_assessment.inspection_required
    /\ analysis_result.safety_assessment.overall_rating = "caution"

\* ---- C18
\* safe < 15, minor_concern 15 up to 40, caution 40 to 70, unsafe > 70: the lower
\* bound of a tier belongs to it.
RatingTier(score) ==
    IF score.num < 15 * score.den THEN "safe"
    ELSE IF score.num < 40 * score.den THEN "minor_concern"
    ELSE IF score.num <= 70 * score.den THEN "caution"
    ELSE "unsafe"

\* C18: the overall rating of an assessment is the tier of its severity score.
C18_RatingTiers ==
    Assessed =>
        analysis_result.safety_assessment.overall_rating
            = RatingTier(analysis_result.severity_score)

\* ---- C19
\* The recommendations for zones (the one for the whole car is none), and the zone
\* each was made for.
ZoneRecommendations ==
    SelectSeq(analysis_result.repair_recommendations, LAMBDA r : r.zone # "Overall")

ZoneOfRecommendation(r) ==
    LET zones == analysis_result.damage_zones
    IN zones[CHOOSE i \in 1 .. Len(zones) : zones[i].name = r.zone]

TierRank(priority) ==
    CASE priority = "critical" -> 4
      [] priority = "high"     -> 3
      [] priority = "medium"   -> 2
      [] priority = "low"      -> 1

\* C19: of two zone recommendations the earlier one has the higher priority tier,
\* or the same tier and a damage level that is not lower; and no recommendation
\* is for a zone damaged below 10.
C19_RecommendationsOrdered ==
    analysis_result.stage = "recommended" =>
        LET recs == ZoneRecommendations IN
        /\ \A i, j \in 1 .. Len(recs) :
              i < j =>
                 LET a == ZoneOfRecommendation(recs[i])
                     b == ZoneOfRecommendation(recs[j])
                 IN \/ TierRank(a.repair_priority) > TierRank(b.repair_priority)
                    \/ /\ TierRank(a.repair_priority) = TierRank(b.repair_priority)
                       /\ a.damage_level >= b.damage_level
        /\ \A i \in 1 .. Len(recs) : ZoneOfRecommendation(recs[i]).damage_level >= 10 * 10

\* The front end (high) is damaged more than the engine bay (critical), which
\* comes later in the list of zones: the engine bay is recommended first, and the
\* four zones without damage are not recommended.
C19_Witness ==
    /\ analysis_result.stage = "recommended"
    /\ DamageIn("front_end") > DamageIn("engine_bay")
    /\ Len(ZoneRecommendations) = 2
    /\ ZoneRecommendations[1].zone = "Engine Bay"
    /\ ZoneRecommendations[2].zone = "Front End"

\* ---- C20
\* The crash data is no dict, or holds a negative force or deformation.
Malformed ==
    \/ crash_data.stage = "None"
    \/ /\ crash_data.stage = "input"
       /\ \/ \E z \in DOMAIN crash_data.impact_data : crash_data.impact_data[z] < 0
          \/ \E z \in DOMAIN crash_data.deformation : crash_data.deformation[z] < 0

\* The crash data reports no force and no deformation anywhere.
NoDamage ==
    /\ crash_data.stage = "input"
    /\ \A z \in DOMAIN crash_data.impact_data : crash_data.impact_data[z] = 0
    /\ \A z \in DOMAIN crash_data.deformation : crash_data.deformation[z] = 0

\* C20: an analysis ends in an error exactly when its crash data is malformed;
\* crash data without damage gives six zones at 0, severity 0, rating safe.
C20_ErrorIffMalformed ==
    analysis_result.stage \in {"analyzed", "raised"} =>
        /\ analysis_result.error # "none" <=> Malformed
        /\ NoDamage =>
              /\ analysis_result.stage = "analyzed"
              /\ Len(analysis_result.damage_zones) = 6
              /\ \A i \in 1 .. 6 : analysis_result.damage_zones[i].damage_level = 0
              /\ analysis_result.severity_score.num = 0
              /\ analysis_result.safety_assessment.overall_rating = "safe"

\* ---- C21
\* A crash event is read while the current session is active.
CrashEventRead ==
    /\ Len(events') = Len(events) + 1
    /\ events'[Len(events')].type = "crash"
    /\ current_session # None
    /\ sessions[current_session].status = "active"

\* C21: a frame that matches no pending command is forwarded to the session: a
\* crash event read while a session is active sets crash_detected on that session.
C21_CrashEventUpdatesSession ==
    [][CrashEventRead => sessions'[current_session].crash_detected]_vars

\* ---- C22
\* The connections the client holds open, and the receive loops that read from one.
OpenConnections == {k \in 1 .. Len(conns) : conns[k] \in {"open", "closing"}}
RunningLoops ==
    {k \in 1 .. Len(listeners) :
        listeners[k].st = "running" /\ listeners[k].ws \in OpenConnections}

\* C22: whatever the sequence of connect() and disconnect() calls, the client holds
\* at most one open connection and at most one receive loop runs.
C22_OneConnectionOneLoop ==
    /\ Cardinality(OpenConnections) <= 1
    /\ Cardinality(RunningLoops) <= 1

\* ---- C27
\* The receive loop of a connection that is no longer self.websocket ends while
\* the current connection is open.
SupersededLoopEnds ==
    \E k \in 1 .. Len(listeners) :
        /\ listeners[k].st = "running"
        /\ listeners'[k].st = "ended"
        /\ listeners[k].ws # websocket
        /\ websocket # None
        /\ conns[websocket] = "open"

\* C27: the receive loop of a superseded connection never changes connected while
\* the current connection is open.
C27_OldLoopKeepsConnected ==
    [][SupersededLoopEnds => connected' = connected]_vars

\* ---- C23
\* execute_crash_simulation of caller t resumes with a success response.
CrashSucceeds(t) ==
    /\ op[t] = "execute_crash_simulation"
    /\ pc[t] = "waiting"
    /\ pc'[t] = "done"
    /\ response_futures[MessageId(t)] # Pending
    /\ response_futures[MessageId(t)].status = "success"

\* C23: whatever load_vw_scenario or end_session did while execute_crash_simulation
\* was suspended, a success response sets crash_detected on the session whose
\* session_id was sent with the command, and on no other session.
C23_CrashMarksSessionSent ==
    [][\A t \in Tasks :
          CrashSucceeds(t) =>
              /\ \E i \in 1 .. Len(sessions) :
                    sessions[i].session_id = sid[t] /\ sessions'[i].crash_detected
              /\ \A i \in 1 .. Len(sessions) :
                    sessions'[i].crash_detected # sessions[i].crash_detected
                        => sessions[i].session_id = sid[t]]_vars

\* ---- C24
\* C24: a part of a zone is among the zone's affected parts exactly when the zone's
\* damage level reaches the part's threshold (front_end at 18 lists the front
\* bumper cover, threshold 15).
C24_PartsByThreshold ==
    analysis_result.stage = "analyzed" =>
        \A i \in 1 .. Len(analysis_result.damage_zones) :
            LET zone == analysis_result.damage_zones[i] IN
            \A part \in ZoneParts(zone.zone) :
                (\E a \in zone.affected_parts : a.part_number = part[1])
                    <=> AtLeast(zone.damage_level, part[2])

\* ---- C25
\* The events posted since the last clear, newest first.
SinceClear == SelectSeq(posted, LAMBDA p : ~p.cleared)

\* C25: every schema-valid event posted is accepted with a crash id, the history
\* is the most recent min(n, 50) events posted since the last clear, newest first,
\* and get_latest_crash answers with the event posted last.
C25_EveryEventRecorded ==
    /\ response.request = "receive_crash_event" =>
           response.status = 200 /\ response.crash_id # None
    /\ Len(crash_events) =
           (IF Len(SinceClear) > MAX_CRASH_HISTORY THEN MAX_CRASH_HISTORY ELSE Len(SinceClear))
    /\ \A i \in 1 .. Len(crash_events) : crash_events[i].event = SinceClear[i].event
    /\ response.request = "get_latest_crash" =>
           response.has_crash = (SinceClear # <<>>)

\* ---- C26
\* The step that ends the wait of caller t: the timer fires or the future is done.
WaitEnds(t) == Timeout(t) \/ Resume(t)

\* The call of t has returned and the table holds no entry for its message id.
Returned(t) == pc[t] = "done" /\ MessageId(t) \notin DOMAIN response_futures

\* C26: every call of send_command returns, whatever the simulator and the
\* connection do: while a call waits, the step that ends its wait is enabled and
\* makes it return with its entry removed from the table, and a call that has
\* returned has no entry (a late response finds none). Under the fairness of
\* SpecLive on that step this is C26_EventuallyReturns.
C26_CallReturns ==
    \A t \in Tasks :
        /\ pc[t] = "waiting" =>
               ENABLED (WaitEnds(t) /\ pc'[t] = "done"
                           /\ MessageId(t) \notin DOMAIN response_futures')
        /\ pc[t] = "done" => Returned(t)

\* A call that waits leads to a state from which on it has returned.
C26_EventuallyReturns ==
    \A t \in Tasks : (pc[t] = "waiting") ~> []Returned(t)

\* A call has timed out on a connection that was dropped, and its entry is gone.
C26_Witness ==
    \E t \in Tasks :
        /\ pc[t] = "done"
        /\ out[t] = TimedOutError
        /\ MessageId(t) \notin DOMAIN response_futures
        /\ \E k \in 1 .. Len(conns) : conns[k] = "dropped"
        /\ ~connected

\* ---- C28
\* BeamNGService.connect of caller t returns False with this step, after it has
\* opened the websocket and sent its ping.
ConnectReturnsFalse(t) ==
    /\ op[t] = "connect"
    /\ pc[t] = "waiting"
    /\ pc'[t] = "done"
    /\ ret'[t] = "False"

\* C28: when BeamNGService.connect returns False after the websocket opened (the
\* ping was answered without success, timed out or failed), the client is left
\* disconnected: connected is False, no connection is open and no receive loop runs.
C28_FailedConnectDisconnects ==
    [][\A t \in Tasks :
          ConnectReturnsFalse(t) =>
              /\ ~connected'
              /\ \A k \in 1 .. Len(conns') : conns'[k] \notin {"open", "closing"}
              /\ \A k \in 1 .. Len(listeners') :
                    listeners'[k].st = "running" => conns'[listeners'[k].ws] \notin {"open", "closing"}]_vars

\* ---- C29
\* A command of the operation of caller t fails with this step: its wait ends by
\* the timer or with a response of status error, or the call raises.
CommandFails(t) ==
    \/ /\ pc[t] = "waiting"
       /\ MessageId(t) \in DOMAIN response_futures
       /\ MessageId(t) \notin DOMAIN response_futures'
       /\ \/ response_futures[MessageId(t)] = Pending
          \/ response_futures[MessageId(t)].status = "error"
    \/ /\ pc[t] # "done"
       /\ pc'[t] = "done"
       /\ out'[t].kind = "error"

\* C29: a session command that fails (error status, timeout, connection error)
\* leaves the session records and the current session as they were.
C29_FailureKeepsSession ==
    [][\A t \in Tasks :
          CommandFails(t) => sessions' = sessions /\ current_session' = current_session]_vars

\* ---- C30
\* The items of the raw map whose value is a number above the noise threshold.
Meaningful(items) ==
    {i \in 1 .. Len(items) :
        items[i].value.kind = "num" /\ Clamp(items[i].value.v) > MeaningfulDamage}

\* The raw map with its items in another order.
Reordered(items, p) == [i \in 1 .. Len(items) |-> items[p[i]]]

\* C30: the normalized map has exactly one entry for every raw component above the
\* noise threshold, and it is the same whatever the order of the raw items.
C30_ComponentsKeptDistinct ==
    telemetry.stage = "normalized" =>
        /\ Cardinality(DOMAIN telemetry.damage_data) = Cardinality(Meaningful(telemetry.items))
        /\ \A p \in Permutations(1 .. Len(telemetry.items)) :
              NormalizeItems(Reordered(telemetry.items, p), Len(telemetry.items))
                  = telemetry.damage_data

====
